---------------------------- MODULE Spec2Model ----------------------------
(***************************************************************************)
(* A model of awslabs/aurora_dsql_mcp_server/mutable_sql_detector.py: the  *)
(* keyword and pattern tables, a backtracking regular-expression matcher   *)
(* with the semantics of Python's re module for the constructs the tables  *)
(* use, and the three entry points detect_mutating_keywords,               *)
(* check_sql_injection_risk and detect_transaction_bypass_attempt.         *)
(*                                                                         *)
(* A Python string is a sequence of characters, a character a             *)
(* one-character TLA+ string; the two non-ASCII characters of the model    *)
(* are written by their code points, "U+0130" and "U+212A".  A position i  *)
(* in 0..Len(s) lies before character s[i+1].                              *)
(***************************************************************************)
EXTENDS Integers, Sequences, FiniteSets, TLC

VARIABLES
    MUTATING_KEYWORDS,    \* the module-level set of keyword strings
    MUTATING_PATTERN,     \* the module-level pattern compiled from that set,
                          \* held as its source
    SUSPICIOUS_PATTERNS,  \* the module-level list of pattern sources
    active,               \* the callers of this run
    sql,                  \* sql[c]: the argument of caller c
    pc,                   \* pc[c]: where caller c stands in its call
    matched,              \* matched[c]: the local list of detect_mutating_keywords
    issues,               \* issues[c]: the local list of check_sql_injection_risk
    idx,                  \* idx[c]: the index of the for loop over SUSPICIOUS_PATTERNS
    result                \* result[c]: what the last finished call of c returned

vars == <<MUTATING_KEYWORDS, MUTATING_PATTERN, SUSPICIOUS_PATTERNS, active,
          sql, pc, matched, issues, idx, result>>

---------------------------------------------------------------------------
(* Characters                                                              *)

LowerLetters ==
    <<"a","b","c","d","e","f","g","h","i","j","k","l","m",
      "n","o","p","q","r","s","t","u","v","w","x","y","z">>

UpperLetters ==
    <<"A","B","C","D","E","F","G","H","I","J","K","L","M",
      "N","O","P","Q","R","S","T","U","V","W","X","Y","Z">>

Digits == <<"0","1","2","3","4","5","6","7","8","9">>

Range(f) == {f[i] : i \in DOMAIN f}

\* the characters of a string literal
Chars(str) == [i \in 1..Len(str) |-> SubSeq(str, i, i)]

RECURSIVE Join(_)

\* the string literal of a sequence of characters
Join(cs) == IF cs = <<>> THEN "" ELSE Head(cs) \o Join(Tail(cs))

\* LATIN CAPITAL LETTER I WITH DOT ABOVE and KELVIN SIGN: letters whose
\* lower case is an ASCII letter and whose upper case is the letter itself.
DottedI == "U+0130"
KelvinSign == "U+212A"

SpaceChars == {" ", "\t", "\n", "\r", "\f"}

DigitChars == Range(Digits)

UpperChars == Range(UpperLetters)

LowerChars == Range(LowerLetters)

WordChars == LowerChars \cup UpperChars \cup DigitChars \cup {"_", DottedI, KelvinSign}

\* str.lower() on one character
LowerTable ==
    [c \in UpperChars \cup {DottedI, KelvinSign} |->
        IF c = DottedI THEN "i"
        ELSE IF c = KelvinSign THEN "k"
        ELSE LowerLetters[CHOOSE i \in 1..26 : UpperLetters[i] = c]]

\* str.upper() on one character
UpperTable ==
    [c \in LowerChars |->
        UpperLetters[CHOOSE i \in 1..26 : LowerLetters[i] = c]]

Lower(c) == IF c \in UpperChars \/ c = DottedI \/ c = KelvinSign THEN LowerTable[c] ELSE c

Upper(c) == IF c \in LowerChars THEN UpperTable[c] ELSE c

\* the code point of a character a keyword match can hold
CodePoint(c) ==
    CASE c = " " -> 32
      [] c \in UpperChars ->
            64 + (CHOOSE i \in 1..26 : UpperLetters[i] = c)
      [] c \in LowerChars ->
            96 + (CHOOSE i \in 1..26 : LowerLetters[i] = c)
      [] c = DottedI -> 304
      [] c = KelvinSign -> 8490

IsSpace(c) == c \in SpaceChars

IsWord(c) == c \in WordChars

IsDigit(c) == c \in DigitChars

---------------------------------------------------------------------------
(* Regular expressions: the syntax trees of the patterns.                  *)

Lit(c) == [k |-> "lit", c |-> c]              \* one literal character
Word(w) == [k |-> "word", w |-> Chars(w)]     \* a run of literal characters
Cls(n) == [k |-> "cls", n |-> n]              \* \s \S \w \d . [^']
Cat(xs) == [k |-> "cat", xs |-> xs]           \* concatenation
Alt(xs) == [k |-> "alt", xs |-> xs]           \* x|y|...
Star(x) == [k |-> "star", x |-> x]            \* x*
LazyStar(x) == [k |-> "lazystar", x |-> x]    \* x*?
Plus(x) == [k |-> "plus", x |-> x]            \* x+
Opt(x) == [k |-> "opt", x |-> x]              \* x?
WordBoundary == [k |-> "wb"]                  \* \b
Bol == [k |-> "bol"]                          \* ^
Eol == [k |-> "eol"]                          \* $
Ahead(x) == [k |-> "ahead", x |-> x]          \* (?=x)
NotAhead(x) == [k |-> "notahead", x |-> x]    \* (?!x)

\* a compiled pattern: the tree and the flags it was compiled with
Compiled(tree, ignorecase, dotall) ==
    [tree |-> tree, ignorecase |-> ignorecase, dotall |-> dotall]

\* whether pattern character p matches input character c
LitMatches(p, c, ignorecase) ==
    IF ignorecase THEN Lower(p) = Lower(c) ELSE p = c

\* whether input character c is in the class named n
ClsMatches(n, c, dotall) ==
    CASE n = "s" -> IsSpace(c)
      [] n = "S" -> ~IsSpace(c)
      [] n = "w" -> IsWord(c)
      [] n = "d" -> IsDigit(c)
      [] n = "." -> dotall \/ c # "\n"
      [] n = "notquote" -> c # "'"

\* \b at position i: exactly one of the characters around i is a word character
AtWordBoundary(s, i) ==
    LET before == i > 0 /\ IsWord(s[i])
        after == i < Len(s) /\ IsWord(s[i + 1])
    IN before # after

\* $ without MULTILINE: the end, or just before a newline that ends the string
AtEnd(s, i) ==
    \/ i = Len(s)
    \/ i = Len(s) - 1 /\ s[Len(s)] = "\n"

\* whether the literal run w stands in s at position i
WordAt(w, s, i, ignorecase) ==
    /\ i + Len(w) <= Len(s)
    /\ \A j \in 1..Len(w) : LitMatches(w[j], s[i + j], ignorecase)

RECURSIVE Ends(_, _, _, _), EndsFrom(_, _, _, _, _), EndsCat(_, _, _, _, _),
          EndsAlt(_, _, _, _, _)

\* The ends of the matches of tree x in s that start at position i, in the
\* order in which a backtracking matcher tries them.
Ends(x, s, i, fl) ==
    CASE x.k = "cat" -> EndsCat(x.xs, 1, s, <<i>>, fl)
      [] x.k = "wb" -> IF AtWordBoundary(s, i) THEN <<i>> ELSE <<>>
      [] x.k = "word" ->
            IF WordAt(x.w, s, i, fl.ignorecase) THEN <<i + Len(x.w)>> ELSE <<>>
      [] x.k = "cls" ->
            IF i < Len(s) /\ ClsMatches(x.n, s[i + 1], fl.dotall)
            THEN <<i + 1>> ELSE <<>>
      [] x.k = "lit" ->
            IF i < Len(s) /\ LitMatches(x.c, s[i + 1], fl.ignorecase)
            THEN <<i + 1>> ELSE <<>>
      [] x.k = "star" -> EndsFrom(x, s, Ends(x.x, s, i, fl), 1, fl) \o <<i>>
      [] x.k = "lazystar" ->
            <<i>> \o EndsFrom(x, s, Ends(x.x, s, i, fl), 1, fl)
      [] x.k = "plus" -> EndsFrom(Star(x.x), s, Ends(x.x, s, i, fl), 1, fl)
      [] x.k = "opt" -> Ends(x.x, s, i, fl) \o <<i>>
      [] x.k = "alt" -> EndsAlt(x.xs, 1, s, i, fl)
      [] x.k = "bol" -> IF i = 0 THEN <<i>> ELSE <<>>
      [] x.k = "eol" -> IF AtEnd(s, i) THEN <<i>> ELSE <<>>
      [] x.k = "ahead" -> IF Ends(x.x, s, i, fl) # <<>> THEN <<i>> ELSE <<>>
      [] x.k = "notahead" -> IF Ends(x.x, s, i, fl) = <<>> THEN <<i>> ELSE <<>>

\* the ends of x from each of the positions starts[n..], in order
EndsFrom(x, s, starts, n, fl) ==
    IF n > Len(starts) THEN <<>>
    ELSE IF n = Len(starts) THEN Ends(x, s, starts[n], fl)
    ELSE Ends(x, s, starts[n], fl) \o EndsFrom(x, s, starts, n + 1, fl)

\* the ends of xs[n], xs[n+1], ... in a row, from each of the positions starts
EndsCat(xs, n, s, starts, fl) ==
    IF n > Len(xs) \/ starts = <<>> THEN starts
    ELSE EndsCat(xs, n + 1, s, EndsFrom(xs[n], s, starts, 1, fl), fl)

\* the ends of the alternatives xs[n], xs[n+1], ... from position i
EndsAlt(xs, n, s, i, fl) ==
    IF n > Len(xs) THEN <<>>
    ELSE Ends(xs[n], s, i, fl) \o EndsAlt(xs, n + 1, s, i, fl)

\* pattern.search(s) is not None
Search(p, s) ==
    \E i \in 0..Len(s) : Ends(p.tree, s, i, p) # <<>>

RECURSIVE FindAllFrom(_, _, _)

\* pattern.findall(s) from position i on: the leftmost match, then the
\* matches after its end
FindAllFrom(p, s, i) ==
    IF i > Len(s) THEN <<>>
    ELSE LET es == Ends(p.tree, s, i, p)
         IN IF es = <<>> THEN FindAllFrom(p, s, i + 1)
            ELSE <<SubSeq(s, i + 1, es[1])>>
                    \o FindAllFrom(p, s, IF es[1] > i THEN es[1] ELSE i + 1)

\* pattern.findall(s), one entry for each match: the text of the match,
\* which is the text of group 1 in MUTATING_PATTERN
FindAll(p, s) == FindAllFrom(p, s, 0)

---------------------------------------------------------------------------
(* detect_transaction_bypass_attempt                                       *)

\* ($|\s*--|\s*/\*)
TrailingOnly ==
    Alt(<<Eol,
          Cat(<<Star(Cls("s")), Word("--")>>),
          Cat(<<Star(Cls("s")), Word("/*")>>)>>)

\* the stacked-statement pattern with \s+ for \s*
StackedAfterSpace ==
    Cat(<<Lit(";"), Plus(Cls("s")), NotAhead(TrailingOnly), Ahead(Cls("S"))>>)

\* ;\s*(?!($|\s*--|\s*/\*))(?=\S)
StackedTree ==
    Cat(<<Lit(";"), Star(Cls("s")), NotAhead(TrailingOnly), Ahead(Cls("S"))>>)

\* the COMMIT pattern with any text after the semicolon, comments too
commit_then_anything ==
    Compiled(Cat(<<WordBoundary, Word("commit"), WordBoundary,
                   LazyStar(Cls(".")), Lit(";"), Star(Cls("s")),
                   Plus(Cls("S"))>>),
             TRUE, TRUE)

\* re.compile(r'(?i)\bcommit\b.*?;\s*(?!($|\s*--|\s*/\*))\w+', re.DOTALL)
commit_bypass_pattern ==
    Compiled(Cat(<<WordBoundary, Word("commit"), WordBoundary,
                   LazyStar(Cls(".")), Lit(";"), Star(Cls("s")),
                   NotAhead(TrailingOnly), Plus(Cls("w"))>>),
             TRUE, TRUE)

\* re.compile(r';\s*(?!($|\s*--|\s*/\*))(?=\S)')
multiple_statements == Compiled(StackedTree, FALSE, FALSE)

\* the value detect_transaction_bypass_attempt(s) returns
DetectTransactionBypassAttempt(s) ==
    Search(commit_bypass_pattern, s) \/ Len(FindAll(multiple_statements, s)) > 0

---------------------------------------------------------------------------
(* The keyword set and the category patterns                               *)

\* the members of MUTATING_KEYWORDS, in the order of the source
KeywordList ==
    <<"INSERT", "UPDATE", "DELETE", "REPLACE", "TRUNCATE", "CREATE", "DROP",
      "ALTER", "RENAME", "GRANT", "REVOKE", "LOAD DATA", "LOAD XML",
      "INSTALL PLUGIN", "UNINSTALL PLUGIN", "COPY", "MERGE", "UPSERT">>

Reverse(xs) == [i \in 1..Len(xs) |-> xs[Len(xs) + 1 - i]]

\* Orders in which the iteration of the set can hand its members to
\* '|'.join: the order of a set of strings differs from process to process.
JoinOrders == {KeywordList, Reverse(KeywordList)}

\* re.escape(k): of the characters of a keyword only the space is escaped
Escaped(k) ==
    Join([i \in 1..Len(k) |->
            IF SubSeq(k, i, i) = " " THEN "\\ " ELSE SubSeq(k, i, i)])

RECURSIVE JoinedFrom(_, _)

\* '|'.join(re.escape(k) for k in order), from order[n] on
JoinedFrom(order, n) ==
    IF n = Len(order) THEN Escaped(order[n])
    ELSE Escaped(order[n]) \o "|" \o JoinedFrom(order, n + 1)

\* r'(?i)\b(' + '|'.join(re.escape(k) for k in order) + r')\b'
KeywordSource(order) == "(?i)\\b(" \o JoinedFrom(order, 1) \o ")\\b"

\* re.compile of that source
CompileKeywords(order) ==
    Compiled(Cat(<<WordBoundary,
                   Alt([i \in 1..Len(order) |-> Word(order[i])]),
                   WordBoundary>>),
             TRUE, FALSE)

\* The compiled pattern of each source MUTATING_PATTERN can hold: the model
\* keeps a pattern object as its source.
KeywordPatterns ==
    [source \in {KeywordSource(order) : order \in JoinOrders} |->
        CompileKeywords(CHOOSE order \in JoinOrders :
                            KeywordSource(order) = source)]

\* \s+
Spaces == Plus(Cls("s"))

\* (TABLE|VIEW|INDEX|TRIGGER|PROCEDURE|FUNCTION|EVENT|SCHEMA|DATABASE|ROLE|USER)
DdlObjects ==
    Alt(<<Word("TABLE"), Word("VIEW"), Word("INDEX"), Word("TRIGGER"),
          Word("PROCEDURE"), Word("FUNCTION"), Word("EVENT"), Word("SCHEMA"),
          Word("DATABASE"), Word("ROLE"), Word("USER")>>)

\* (TABLE|VIEW|TRIGGER|PROCEDURE|FUNCTION|EVENT|SCHEMA|DATABASE|ROLE|USER)
AlterObjects ==
    Alt(<<Word("TABLE"), Word("VIEW"), Word("TRIGGER"), Word("PROCEDURE"),
          Word("FUNCTION"), Word("EVENT"), Word("SCHEMA"), Word("DATABASE"),
          Word("ROLE"), Word("USER")>>)

\* the anchored pattern without its closing \b
AnchoredNoBoundary(alternatives) ==
    Compiled(Cat(<<Bol, Star(Cls("s")), Alt(alternatives)>>), TRUE, FALSE)

\* ^\s*( alternatives )\b, compiled with IGNORECASE and VERBOSE
Anchored(alternatives) ==
    Compiled(Cat(<<Bol, Star(Cls("s")), Alt(alternatives), WordBoundary>>),
             TRUE, FALSE)

DdlAlternatives ==
    <<
        Cat(<<Word("CREATE"), Spaces, DdlObjects>>),
        Cat(<<Word("DROP"), Spaces, DdlObjects>>),
        Cat(<<Word("ALTER"), Spaces, AlterObjects>>),
        Cat(<<Word("RENAME"), Spaces, Word("TABLE")>>),
        Word("TRUNCATE")>>

DDL_REGEX == Anchored(DdlAlternatives)

PermissionAlternatives ==
    <<
        Cat(<<Word("GRANT"), Opt(Cat(<<Spaces, Word("ROLE")>>))>>),
        Cat(<<Word("REVOKE"), Opt(Cat(<<Spaces, Word("ROLE")>>))>>),
        Cat(<<Word("CREATE"), Spaces, Alt(<<Word("USER"), Word("ROLE")>>)>>),
        Cat(<<Word("DROP"), Spaces, Alt(<<Word("USER"), Word("ROLE")>>)>>),
        Cat(<<Word("SET"), Spaces, Word("DEFAULT"), Spaces, Word("ROLE")>>),
        Cat(<<Word("SET"), Spaces, Word("PASSWORD")>>),
        Cat(<<Word("ALTER"), Spaces, Word("USER")>>),
        Cat(<<Word("RENAME"), Spaces, Word("USER")>>)>>

PERMISSION_REGEX == Anchored(PermissionAlternatives)

SystemAlternatives ==
    <<
        Cat(<<Word("SET"), Spaces,
              Alt(<<Word("GLOBAL"), Word("PERSIST"), Word("SESSION")>>)>>),
        Cat(<<Word("RESET"), Spaces,
              Alt(<<Word("PERSIST"), Word("MASTER"), Word("SLAVE")>>)>>),
        Cat(<<Word("FLUSH"), Spaces,
              Opt(Alt(<<Word("PRIVILEGES"), Word("HOSTS"), Word("LOGS"),
                        Word("STATUS"), Word("TABLES")>>))>>),
        Cat(<<Word("INSTALL"), Spaces, Word("PLUGIN")>>),
        Cat(<<Word("UNINSTALL"), Spaces, Word("PLUGIN")>>),
        Cat(<<Word("CHANGE"), Spaces, Word("MASTER"), Spaces, Word("TO")>>),
        Cat(<<Word("START"), Spaces, Word("SLAVE")>>),
        Cat(<<Word("STOP"), Spaces, Word("SLAVE")>>),
        Cat(<<Word("SET"), Spaces, Word("GTID_PURGED")>>),
        Cat(<<Word("PURGE"), Spaces, Word("BINARY"), Spaces, Word("LOGS")>>),
        Cat(<<Word("LOAD"), Spaces, Word("DATA"), Spaces, Word("INFILE")>>),
        Cat(<<Word("SELECT"), Spaces, Star(Cls(".")), Spaces, Word("INTO"),
              Spaces, Word("OUTFILE")>>),
        Cat(<<Word("USE"), Spaces, Plus(Cls("w"))>>),
        Cat(<<Word("SET"), Spaces, Word("autocommit")>>),
        Cat(<<Word("COPY"), Spaces, Star(Cls(".")), Spaces, Word("FROM")>>),
        Cat(<<Word("COPY"), Spaces, Star(Cls(".")), Spaces, Word("TO")>>)>>

SYSTEM_REGEX == Anchored(SystemAlternatives)

TransactionControlAlternatives ==
    <<
        Cat(<<Word("BEGIN"), Opt(Cat(<<Spaces, Word("TRANSACTION")>>)),
              Opt(Cat(<<Spaces, Word("READ"), Spaces, Word("ONLY")>>))>>),
        Cat(<<Word("COMMIT"), Opt(Cat(<<Spaces, Word("TRANSACTION")>>))>>),
        Cat(<<Word("ROLLBACK"), Opt(Cat(<<Spaces, Word("TRANSACTION")>>))>>),
        Word("SAVEPOINT"),
        Cat(<<Word("RELEASE"), Spaces, Word("SAVEPOINT")>>),
        Cat(<<Word("START"), Spaces, Word("TRANSACTION")>>)>>

TRANSACTION_CONTROL_REGEX == Anchored(TransactionControlAlternatives)

---------------------------------------------------------------------------
(* detect_mutating_keywords                                                *)

\* k, not upper-cased
NotUpperOf(k) == k

\* k.upper()
UpperOf(k) == [i \in 1..Len(k) |-> Upper(k[i])]

RECURSIVE StrLess(_, _)

\* a < b on Python strings: by code point, a proper prefix first
StrLess(a, b) ==
    IF b = <<>> THEN FALSE
    ELSE IF a = <<>> THEN TRUE
    ELSE IF Head(a) = Head(b) THEN StrLess(Tail(a), Tail(b))
    ELSE CodePoint(Head(a)) < CodePoint(Head(b))

RECURSIVE Sorted(_)

\* sorted(S) of a set of strings
Sorted(S) ==
    IF S = {} THEN <<>>
    ELSE LET least == CHOOSE a \in S : \A b \in S \ {a} : StrLess(a, b)
         IN <<least>> \o Sorted(S \ {least})

\* matched = []
NewMatched == <<>>

\* if REGEX.search(sql): matched.append(label)
AppendIfFound(list, regex, label, s) ==
    IF Search(regex, s) THEN Append(list, label) ELSE list

\* keyword_matches = MUTATING_PATTERN.findall(sql); if keyword_matches:
\*     matched.extend(sorted({k.upper() for k in keyword_matches}))
ExtendWithKeywords(list, pattern, s) ==
    LET keyword_matches == FindAll(pattern, s)
        upper == Sorted({UpperOf(k) : k \in Range(keyword_matches)})
    IN IF keyword_matches # <<>>
       THEN list \o [i \in 1..Len(upper) |-> Join(upper[i])]
       ELSE list

AfterDdl(list, s) == AppendIfFound(list, DDL_REGEX, "DDL", s)

AfterPermission(list, s) ==
    AppendIfFound(list, PERMISSION_REGEX, "PERMISSION", s)

AfterSystem(list, s) == AppendIfFound(list, SYSTEM_REGEX, "SYSTEM", s)

AfterTransactionControl(list, s) ==
    AppendIfFound(list, TRANSACTION_CONTROL_REGEX, "TRANSACTION_CONTROL", s)

\* the value detect_mutating_keywords(s) returns when MUTATING_PATTERN is
\* pattern
DetectMutatingKeywords(s, pattern) ==
    ExtendWithKeywords(
        AfterTransactionControl(
            AfterSystem(AfterPermission(AfterDdl(NewMatched, s), s), s), s),
        pattern, s)

---------------------------------------------------------------------------
(* check_sql_injection_risk                                                *)

\* the members of SUSPICIOUS_PATTERNS, in the order of the source
PatternSources ==
    <<"(?i)'.*?--",
      "(?i)\\bor\\b\\s+\\d+\\s*=\\s*\\d+",
      "(?i)\\bor\\b\\s*'[^']+'\\s*=\\s*'[^']+'",
      "(?i)\\bunion\\b.*\\bselect\\b",
      "(?i)\\bdrop\\b",
      "(?i)\\btruncate\\b",
      "(?i)\\bgrant\\b|\\brevoke\\b",
      ";\\s*(?!($|\\s*--|\\s*/\\*))(?=\\S)",
      "(?i)\\bsleep\\s*\\(",
      "(?i)\\bpg_sleep\\s*\\(",
      "(?i)\\bload_file\\s*\\(",
      "(?i)\\binto\\s+outfile\\b",
      "(?i)\\bcopy\\s+.*\\s+from\\b",
      "(?i)\\bcopy\\s+.*\\s+to\\b",
      "(?i)\\b(begin|commit|rollback)\\b.*;\\s*\\w+">>

\* \bword\b
WholeWord(w) == Cat(<<WordBoundary, Word(w), WordBoundary>>)

\* '[^']+'
Quoted == Cat(<<Lit("'"), Plus(Cls("notquote")), Lit("'")>>)

\* the trees of the members of SUSPICIOUS_PATTERNS, in the same order
PatternTrees ==
    <<Cat(<<Lit("'"), LazyStar(Cls(".")), Word("--")>>),
      Cat(<<WholeWord("or"), Spaces, Plus(Cls("d")), Star(Cls("s")), Lit("="),
            Star(Cls("s")), Plus(Cls("d"))>>),
      Cat(<<WholeWord("or"), Star(Cls("s")), Quoted, Star(Cls("s")), Lit("="),
            Star(Cls("s")), Quoted>>),
      Cat(<<WholeWord("union"), Star(Cls(".")), WholeWord("select")>>),
      WholeWord("drop"),
      WholeWord("truncate"),
      Alt(<<WholeWord("grant"), WholeWord("revoke")>>),
      StackedTree,
      Cat(<<WordBoundary, Word("sleep"), Star(Cls("s")), Lit("(")>>),
      Cat(<<WordBoundary, Word("pg_sleep"), Star(Cls("s")), Lit("(")>>),
      Cat(<<WordBoundary, Word("load_file"), Star(Cls("s")), Lit("(")>>),
      Cat(<<WordBoundary, Word("into"), Spaces, Word("outfile"),
            WordBoundary>>),
      Cat(<<WordBoundary, Word("copy"), Spaces, Star(Cls(".")), Spaces,
            Word("from"), WordBoundary>>),
      Cat(<<WordBoundary, Word("copy"), Spaces, Star(Cls(".")), Spaces,
            Word("to"), WordBoundary>>),
      Cat(<<WordBoundary,
            Alt(<<Word("begin"), Word("commit"), Word("rollback")>>),
            WordBoundary, Star(Cls(".")), Lit(";"), Star(Cls("s")),
            Plus(Cls("w"))>>)>>

\* the pattern re.search compiles from a source: (?i) in the source sets
\* IGNORECASE, and no source sets DOTALL
ReCompile(source) ==
    LET n == CHOOSE i \in DOMAIN PatternSources : PatternSources[i] = source
    IN Compiled(PatternTrees[n], SubSeq(source, 1, 4) = "(?i)", FALSE)

\* the dictionary appended for a pattern that matches
Finding(pattern) ==
    [type |-> "sql",
     message |-> "Suspicious pattern detected: " \o pattern,
     severity |-> "high"]

\* issues = []
NewIssues == <<>>

\* a turn of the loop that appends and does not break
LoopTurnNoBreak(list, pattern, s) ==
    IF Search(ReCompile(pattern), s)
    THEN [issues |-> Append(list, Finding(pattern)), broke |-> FALSE]
    ELSE [issues |-> list, broke |-> FALSE]

\* One turn of the loop over SUSPICIOUS_PATTERNS, for the member pattern:
\* the list after it, and whether the loop broke.
LoopTurn(list, pattern, s) ==
    IF Search(ReCompile(pattern), s)
    THEN [issues |-> Append(list, Finding(pattern)), broke |-> TRUE]
    ELSE [issues |-> list, broke |-> FALSE]

RECURSIVE LoopFrom(_, _, _, _)

\* the list after the turns for patterns[n], patterns[n+1], ...
LoopFrom(list, patterns, n, s) ==
    IF n > Len(patterns) THEN list
    ELSE LET turn == LoopTurn(list, patterns[n], s)
         IN IF turn.broke THEN turn.issues
            ELSE LoopFrom(turn.issues, patterns, n + 1, s)

\* the value check_sql_injection_risk(s) returns when SUSPICIOUS_PATTERNS is
\* patterns
CheckSqlInjectionRisk(s, patterns) == LoopFrom(NewIssues, patterns, 1, s)

---------------------------------------------------------------------------
(* The callers and their calls                                              *)

\* the number of callers
NumCallers == 2

Callers == 1..NumCallers

\* one frame for the calls of all callers
SharedFrame(c) == 1

\* Each call has locals of its own: the frame that holds the locals of the
\* call of caller c.
Frame(c) == c

NoResult == [fn |-> "none", val |-> <<>>]

Returned(fn, val) == [fn |-> fn, val |-> val]

Idle(c) == c \in active /\ pc[c] = "idle"

Tables == <<MUTATING_KEYWORDS, MUTATING_PATTERN, SUSPICIOUS_PATTERNS>>

\* return val, from function fn
Return(c, fn, val) ==
    /\ result' = [result EXCEPT ![c] = Returned(fn, val)]
    /\ pc' = [pc EXCEPT ![c] = "done"]

\* a whole call of detect_mutating_keywords(sql[c])
CallDetect(c) ==
    /\ Idle(c)
    /\ Return(c, "detect_mutating_keywords",
              DetectMutatingKeywords(sql[c], KeywordPatterns[MUTATING_PATTERN]))
    /\ UNCHANGED <<Tables, active, sql, matched, issues, idx>>

\* a whole call of check_sql_injection_risk(sql[c])
CallCheck(c) ==
    /\ Idle(c)
    /\ Return(c, "check_sql_injection_risk",
              CheckSqlInjectionRisk(sql[c], SUSPICIOUS_PATTERNS))
    /\ UNCHANGED <<Tables, active, sql, matched, issues, idx>>

\* a whole call of detect_transaction_bypass_attempt(sql[c])
CallBypass(c) ==
    /\ Idle(c)
    /\ Return(c, "detect_transaction_bypass_attempt",
              DetectTransactionBypassAttempt(sql[c]))
    /\ UNCHANGED <<Tables, active, sql, matched, issues, idx>>

(* The same calls statement by statement, for callers that run at once.    *)

\* matched = []
EnterDetect(c) ==
    /\ Idle(c)
    /\ matched' = [matched EXCEPT ![Frame(c)] = NewMatched]
    /\ pc' = [pc EXCEPT ![c] = "ddl"]
    /\ UNCHANGED <<Tables, active, sql, issues, idx, result>>

\* one of the four statements "if REGEX.search(sql): matched.append(label)"
CategoryStep(c, at, after, next) ==
    /\ c \in active
    /\ pc[c] = at
    /\ matched' = [matched EXCEPT ![Frame(c)] = after]
    /\ pc' = [pc EXCEPT ![c] = next]
    /\ UNCHANGED <<Tables, active, sql, issues, idx, result>>

StepDdl(c) ==
    CategoryStep(c, "ddl", AfterDdl(matched[Frame(c)], sql[c]), "permission")

StepPermission(c) ==
    CategoryStep(c, "permission", AfterPermission(matched[Frame(c)], sql[c]),
                 "system")

StepSystem(c) ==
    CategoryStep(c, "system", AfterSystem(matched[Frame(c)], sql[c]),
                 "transaction")

StepTransactionControl(c) ==
    CategoryStep(c, "transaction",
                 AfterTransactionControl(matched[Frame(c)], sql[c]), "keywords")

\* the keyword scan, and return matched
StepKeywords(c) ==
    /\ c \in active
    /\ pc[c] = "keywords"
    /\ LET after == ExtendWithKeywords(matched[Frame(c)],
                                       KeywordPatterns[MUTATING_PATTERN], sql[c])
       IN /\ matched' = [matched EXCEPT ![Frame(c)] = after]
          /\ Return(c, "detect_mutating_keywords", after)
    /\ UNCHANGED <<Tables, active, sql, issues, idx>>

\* issues = [], and the loop starts at the first pattern
EnterCheck(c) ==
    /\ Idle(c)
    /\ issues' = [issues EXCEPT ![Frame(c)] = NewIssues]
    /\ idx' = [idx EXCEPT ![Frame(c)] = 1]
    /\ pc' = [pc EXCEPT ![c] = "loop"]
    /\ UNCHANGED <<Tables, active, sql, matched, result>>

\* one turn of the loop; after a break or the last pattern, return issues
StepLoop(c) ==
    /\ c \in active
    /\ pc[c] = "loop"
    /\ LET n == idx[Frame(c)]
           turn == LoopTurn(issues[Frame(c)], SUSPICIOUS_PATTERNS[n], sql[c])
       IN /\ issues' = [issues EXCEPT ![Frame(c)] = turn.issues]
          /\ IF turn.broke \/ n = Len(SUSPICIOUS_PATTERNS)
             THEN /\ Return(c, "check_sql_injection_risk", turn.issues)
                  /\ idx' = idx
             ELSE /\ idx' = [idx EXCEPT ![Frame(c)] = n + 1]
                  /\ UNCHANGED <<pc, result>>
    /\ UNCHANGED <<Tables, active, sql, matched>>

---------------------------------------------------------------------------
(* The inputs and the specifications                                        *)

\* the longest input, in pieces
MaxPieces == 3

\* the longest input made of whole triggers, in pieces
MaxTriggers == 2

\* the longest input of the bypass detector, in pieces
MaxBypassPieces == 4

\* the pieces, as sequences of characters
Words(pieces) == {Chars(p) : p \in pieces}

RECURSIVE Concats(_, _)

\* the strings made of at most n of the pieces
Concats(pieces, n) ==
    IF n = 0 THEN {<<>>}
    ELSE LET shorter == Concats(pieces, n - 1)
         IN shorter \cup {s \o p : s \in shorter, p \in pieces}

\* the state before any call: caller 1 holds an input of arguments, the
\* tables are as the module's import leaves them
InitWith(callers, arguments, orders) ==
    /\ MUTATING_KEYWORDS = Range(KeywordList)
    /\ MUTATING_PATTERN \in {KeywordSource(order) : order \in orders}
    /\ SUSPICIOUS_PATTERNS = PatternSources
    /\ active = callers
    /\ sql \in arguments
    /\ pc = [c \in Callers |-> "idle"]
    /\ matched = [c \in Callers |-> <<>>]
    /\ issues = [c \in Callers |-> <<>>]
    /\ idx = [c \in Callers |-> 0]
    /\ result = [c \in Callers |-> NoResult]

\* caller 1 alone, with one of the inputs
OneCaller(inputs) == {[c \in Callers |-> IF c = 1 THEN s ELSE <<>>] : s \in inputs}

\* Inputs of the bypass detector: a transaction end, the separator, white
\* space, the comment markers and statement text.
BypassPieces == {"Commit", ";", "\n", "-", "/**/", "x"}

InitBypass ==
    InitWith({1}, OneCaller(Concats(Words(BypassPieces), MaxBypassPieces)), {KeywordList})

NextBypass == \E c \in Callers : CallBypass(c) \/ CallCheck(c)

SpecBypass == InitBypass /\ [][NextBypass]_vars

\* Inputs of the injection scanner, in families: tautologies and comment
\* injection; the keyword rules; statements and transaction control; the
\* function calls and INTO OUTFILE; COPY; and one trigger of each rule.
TautologyPieces == {"or ", "1", "=1", "'a'", "='a'", "--", "x"}

KeywordPieces == {"Union", "select", " ", "\n", "DROP", "truncate", "revoke"}

StatementPieces == {"commit", "Begin", "rollback", ";", " ", "x", "--"}

FunctionPieces == {"sleep", "pg_sleep", "load_file", "(", " ", "into", "outfile"}

CopyPieces == {"copy ", " ", "from", "to", "x", "\n"}

TriggerPieces ==
    {"'--", "or 1=1", "or'a'='a'", "union select", "drop", "truncate",
     "grant", ";x", "sleep(", "pg_sleep(", "load_file(", "into outfile",
     "copy a from", "copy a to", "commit;x", " "}

ScanInputs ==
    Concats(Words(TautologyPieces), MaxPieces) \cup Concats(Words(KeywordPieces), MaxPieces)
        \cup Concats(Words(StatementPieces), MaxPieces)
        \cup Concats(Words(FunctionPieces), MaxPieces)
        \cup Concats(Words(CopyPieces), MaxPieces)
        \cup Concats(Words(TriggerPieces), MaxTriggers)

InitScan == InitWith({1}, OneCaller(ScanInputs), {KeywordList})

NextScan == \E c \in Callers : CallCheck(c)

SpecScan == InitScan /\ [][NextScan]_vars

\* Inputs of the category matcher, in families: statements of the DDL and
\* PERMISSION rules and words that only start like them; FLUSH; the keyword
\* scan, with keywords of two words and a keyword spelt with U+0130; the
\* SYSTEM and TRANSACTION_CONTROL rules; and the examples of the
\* specification.
DdlPieces == {"CREATE", "Drop", "truncate", "GRANT", " ", "_", "D", "TABLE", "user"}

FlushPieces == {"FLUSH", "flush", " ", ";", "LOGS", "x"}

KeywordScanPieces == {"LOAD", " ", "DATA", "XML", "insert", "UPDATE", "\n"}

\* INSERT, spelt with U+0130
DottedInsert == <<DottedI>> \o Chars("NSERT")

SystemPieces == {"BEGIN", "commit", " ", "TRANSACTION", "S", "USE", "SAVEPOINT"}

NoLabelExamples ==
    {"SELECT * FROM t", "SELECT created_at FROM t", "TRUNCATED",
     "DROP_TABLE x", "GRANTS"}

KeywordScanInputs ==
    Concats(Words(KeywordScanPieces) \cup {DottedInsert}, MaxPieces)

CatInputs ==
    Concats(Words(DdlPieces), MaxPieces) \cup Concats(Words(FlushPieces), MaxPieces)
        \cup Concats(Words(SystemPieces), MaxPieces)
        \cup {Chars(e) : e \in NoLabelExamples}

InitCat ==
    \/ InitWith({1}, OneCaller(CatInputs), {KeywordList})
    \/ InitWith({1}, OneCaller(KeywordScanInputs), JoinOrders)

NextCat == \E c \in Callers : CallDetect(c)

SpecCat == InitCat /\ [][NextCat]_vars

\* Inputs in two spellings: caller 1 holds a statement in mixed case and
\* caller 2 the same statement with its ASCII letters in lower or in upper
\* case.
MaxCasePieces == 2

\* REVOKE, spelt with U+212A
KelvinRevoke == Chars("Revo") \o <<KelvinSign>> \o Chars("e")

CasePieces ==
    Words({"Create Table ", "Commit", ";x", "Union Select ", "Drop", "Or 1=1"})
        \cup {DottedInsert, KelvinRevoke}

AsciiLower(s) == [n \in DOMAIN s |-> IF s[n] \in UpperChars THEN Lower(s[n]) ELSE s[n]]

AsciiUpper(s) == [n \in DOMAIN s |-> IF s[n] \in LowerChars THEN Upper(s[n]) ELSE s[n]]

Spellings(s) == {AsciiLower(s), AsciiUpper(s)}

TwoSpellings(inputs) ==
    UNION {{[c \in Callers |-> IF c = 1 THEN s ELSE IF c = 2 THEN t ELSE <<>>] :
                t \in Spellings(s)} : s \in inputs}

InitCase ==
    InitWith({1, 2}, TwoSpellings(Concats(CasePieces, MaxCasePieces)), {KeywordList})

NextCase == \E c \in Callers : CallDetect(c) \/ CallCheck(c) \/ CallBypass(c)

SpecCase == InitCase /\ [][NextCase]_vars

\* Callers that run at once, each with one of two statements, statement by
\* statement.
PureInputs == Words({"drop;x", "Commit;x"})

InitPure == InitWith(Callers, [Callers -> PureInputs], {KeywordList})

NextPure ==
    \E c \in Callers :
        \/ EnterDetect(c)
        \/ StepDdl(c)
        \/ StepPermission(c)
        \/ StepSystem(c)
        \/ StepTransactionControl(c)
        \/ StepKeywords(c)
        \/ EnterCheck(c)
        \/ StepLoop(c)
        \/ CallBypass(c)

SpecPure == InitPure /\ [][NextPure]_vars

---------------------------------------------------------------------------
(* What the claims speak of, in terms of the characters of the input        *)

\* whether the characters of text stand in s at position i, in any case
TextAt(text, s, i) == WordAt(Chars(text), s, i, TRUE)

\* whether text stands in s at position i as a whole word
WholeWordAt(text, s, i) ==
    /\ TextAt(text, s, i)
    /\ i = 0 \/ ~IsWord(s[i])
    /\ i + Len(text) = Len(s) \/ ~IsWord(s[i + Len(text) + 1])

RECURSIVE SkipSpaces(_, _)

\* the first position from i on that is not before white space
SkipSpaces(s, i) ==
    IF i < Len(s) /\ IsSpace(s[i + 1]) THEN SkipSpaces(s, i + 1) ELSE i

RECURSIVE SkipTo(_, _, _)

\* the position after the first occurrence of text from i on, or the end
SkipTo(text, s, i) ==
    IF i >= Len(s) THEN Len(s)
    ELSE IF TextAt(text, s, i) THEN i + Len(text)
    ELSE SkipTo(text, s, i + 1)

RECURSIVE SkipTrivia(_, _)

\* the first position from i on that is before neither white space nor a
\* comment (-- to the end of the line, /* to */)
SkipTrivia(s, i) ==
    IF i >= Len(s) THEN Len(s)
    ELSE IF IsSpace(s[i + 1]) THEN SkipTrivia(s, i + 1)
    ELSE IF TextAt("--", s, i) THEN SkipTrivia(s, SkipTo("\n", s, i + 2))
    ELSE IF TextAt("/*", s, i) THEN SkipTrivia(s, SkipTo("*/", s, i + 2))
    ELSE i

\* the word COMMIT, later a semicolon, and after it a further statement:
\* more than white space and comments
CommitThenStatement(s) ==
    \E i \in 0..Len(s) : \E j \in 1..Len(s) :
        /\ WholeWordAt("commit", s, i)
        /\ j > i + 6
        /\ s[j] = ";"
        /\ SkipTrivia(s, j) < Len(s)

\* a semicolon, optional white space, then a character that is neither
\* white space nor the start of a -- or /* comment
IsStacked(s) ==
    \E j \in 1..Len(s) :
        /\ s[j] = ";"
        /\ LET p == SkipSpaces(s, j)
           IN p < Len(s) /\ ~TextAt("--", s, p) /\ ~TextAt("/*", s, p)

HasSemicolon(s) == \E j \in 1..Len(s) : s[j] = ";"

Called(c, fn) == c \in active /\ result[c].fn = fn

---------------------------------------------------------------------------
(* The claims about the bypass detector                                     *)

\* C1: the bypass detector returns true for every string that holds the
\* word COMMIT, later a semicolon, and after the semicolon a further
\* statement, also when a comment stands between the two.
CommitThenStatementIsFlagged ==
    \A c \in Callers :
        Called(c, "detect_transaction_bypass_attempt")
            /\ CommitThenStatement(sql[c])
        => result[c].val = TRUE

\* C9: the bypass detector returns true exactly when the stacked-statement
\* pattern matches; the COMMIT pattern matches only where that one does; a
\* string without a semicolon yields false; and where the detector returns
\* true the injection scanner returns exactly one finding.
BypassIsStackedStatement ==
    \A c \in Callers :
        /\ Called(c, "detect_transaction_bypass_attempt") =>
              /\ result[c].val = IsStacked(sql[c])
              /\ result[c].val = Search(multiple_statements, sql[c])
              /\ Search(commit_bypass_pattern, sql[c]) => IsStacked(sql[c])
              /\ ~HasSemicolon(sql[c]) => result[c].val = FALSE
        /\ Called(c, "check_sql_injection_risk")
              /\ DetectTransactionBypassAttempt(sql[c])
           => Len(result[c].val) = 1

\* C9, witness: the detector returned true for a string the COMMIT pattern
\* matches
CommitBypassFlagged ==
    \E c \in Callers :
        /\ Called(c, "detect_transaction_bypass_attempt")
        /\ result[c].val = TRUE
        /\ Search(commit_bypass_pattern, sql[c])

---------------------------------------------------------------------------
(* The claims about the injection scanner                                   *)

\* the rules, by number, that match s
Matching(s) ==
    {n \in DOMAIN PatternSources : Search(ReCompile(PatternSources[n]), s)}

Least(S) == CHOOSE n \in S : \A m \in S : n <= m

\* the finding of rule n
FindingOfRule(n) ==
    [type |-> "sql",
     message |-> "Suspicious pattern detected: " \o PatternSources[n],
     severity |-> "high"]

\* the number of the rule a finding names
RuleOf(finding) ==
    CHOOSE n \in DOMAIN PatternSources : FindingOfRule(n) = finding

\* C2: the scanner returns the empty list exactly when no rule matches, and
\* otherwise the one finding of the lowest-numbered rule that matches; the
\* findings of two rules differ in their message.
ScannerReportsFirstMatch ==
    /\ \A c \in Callers :
          Called(c, "check_sql_injection_risk") =>
              LET hits == Matching(sql[c])
              IN /\ Len(result[c].val) <= 1
                 /\ result[c].val = <<>> <=> hits = {}
                 /\ hits # {} => result[c].val = <<FindingOfRule(Least(hits))>>
    /\ \A m, n \in DOMAIN PatternSources :
          m # n => Finding(SUSPICIOUS_PATTERNS[m]).message
                      # Finding(SUSPICIOUS_PATTERNS[n]).message

\* C2, witness: the DROP rule and the later stacked-statement rule match,
\* and the finding is that of the DROP rule
FirstOfSeveralReported ==
    \E c \in Callers :
        /\ Called(c, "check_sql_injection_risk")
        /\ {5, 8} \subseteq Matching(sql[c])
        /\ result[c].val = <<FindingOfRule(5)>>

\* the word UNION and later the word SELECT
UnionThenSelect(s) ==
    \E i, j \in 0..Len(s) :
        WholeWordAt("union", s, i) /\ j >= i + 5 /\ WholeWordAt("select", s, j)

\* C3: the scanner returns a finding for every string that holds the word
\* UNION and later the word SELECT, in any case and also across newlines.
UnionSelectIsReported ==
    \A c \in Callers :
        Called(c, "check_sql_injection_risk") /\ UnionThenSelect(sql[c])
        => result[c].val # <<>>

\* C10: no finding names rule 15; where rule 15 matches, rule 8 matches
\* too, and so a rule up to 8 is the one reported.
TransactionRuleNeverReported ==
    \A c \in Callers :
        Called(c, "check_sql_injection_risk") =>
            /\ result[c].val # <<>> => RuleOf(result[c].val[1]) # 15
            /\ 15 \in Matching(sql[c]) =>
                  /\ 8 \in Matching(sql[c])
                  /\ RuleOf(result[c].val[1]) <= 8

\* C10, witness: rule 15 matches and the finding is that of rule 8
TransactionRuleShadowed ==
    \E c \in Callers :
        /\ Called(c, "check_sql_injection_risk")
        /\ 15 \in Matching(sql[c])
        /\ result[c].val = <<FindingOfRule(8)>>

---------------------------------------------------------------------------
(* The claims about the category matcher                                    *)

CategoryLabels == <<"DDL", "PERMISSION", "SYSTEM", "TRANSACTION_CONTROL">>

\* the alternatives of the rule of a category
AlternativesOf(label) ==
    CASE label = "DDL" -> DdlAlternatives
      [] label = "PERMISSION" -> PermissionAlternatives
      [] label = "SYSTEM" -> SystemAlternatives
      [] label = "TRANSACTION_CONTROL" -> TransactionControlAlternatives

\* whether the rule of a category matches the start of s
RuleMatches(label, s) == Search(Anchored(AlternativesOf(label)), s)

RECURSIVE CategoryPartFrom(_, _)

\* the labels, from the n-th on, of the rules that match the start of s
CategoryPartFrom(n, s) ==
    IF n > Len(CategoryLabels) THEN <<>>
    ELSE (IF RuleMatches(CategoryLabels[n], s) THEN <<CategoryLabels[n]>> ELSE <<>>)
            \o CategoryPartFrom(n + 1, s)

\* the tokens of the keyword set that stand in s as whole words, ascending
KeywordPart(s) ==
    LET found == {k \in MUTATING_KEYWORDS :
                    \E i \in 0..Len(s) : WholeWordAt(k, s, i)}
        ascending == Sorted({Chars(k) : k \in found})
    IN [n \in 1..Len(ascending) |-> Join(ascending[n])]

\* C4: the result is the labels of the category rules that match, in the
\* order DDL, PERMISSION, SYSTEM, TRANSACTION_CONTROL, and then the tokens of
\* the keyword set that stand in the string as whole words, each once and
\* in ascending order.
CategoriesThenKeywordTokens ==
    \A c \in Callers :
        Called(c, "detect_mutating_keywords") =>
            result[c].val = CategoryPartFrom(1, sql[c]) \o KeywordPart(sql[c])

\* the position after the leading white space of s
StatementStart(s) == SkipSpaces(s, 0)

\* C5: a statement that begins with the whole word FLUSH is classified
\* SYSTEM, whatever follows the word.
FlushIsSystem ==
    \A c \in Callers :
        Called(c, "detect_mutating_keywords")
            /\ WholeWordAt("FLUSH", sql[c], StatementStart(sql[c]))
        => "SYSTEM" \in Range(result[c].val)

\* a keyword label stands in s, in some case, between characters that are
\* not word characters
OnWholeWord(label, s) ==
    \E i \in 0..Len(s) : \E j \in 1..Len(s) :
        /\ i < j
        /\ Join(UpperOf(SubSeq(s, i + 1, j))) = label
        /\ i = 0 \/ ~IsWord(s[i])
        /\ j = Len(s) \/ ~IsWord(s[j + 1])

\* the position of the last word character of s at or before position e
LastWordEnd(s, e) ==
    CHOOSE j \in 0..e :
        /\ j > 0 => IsWord(s[j])
        /\ \A m \in (j + 1)..e : ~IsWord(s[m])

\* the rule of a category matches a prefix of s whose last word is not
\* directly followed by a word character
PrefixEndsOnWord(label, s) ==
    \E e \in Range(Ends(AnchoredNoBoundary(AlternativesOf(label)).tree, s, 0,
                        [ignorecase |-> TRUE, dotall |-> FALSE])) :
        LET j == LastWordEnd(s, e)
        IN j > 0 /\ (j = Len(s) \/ ~IsWord(s[j + 1]))

\* a keyword begins at some position of s and is no whole word there
PartialKeyword(s) ==
    \E k \in MUTATING_KEYWORDS : \E i \in 0..Len(s) :
        TextAt(k, s, i) /\ ~WholeWordAt(k, s, i)

\* C6: no label rests on a part of a word: a keyword label stands in the
\* string as a whole word, a category label has a matched prefix whose last
\* word is not directly followed by a word character, and the examples
\* of the specification yield no label.
NoLabelOnPartialWord ==
    \A c \in Callers :
        Called(c, "detect_mutating_keywords") =>
            /\ \A n \in DOMAIN result[c].val :
                  LET label == result[c].val[n]
                  IN IF label \in Range(CategoryLabels)
                     THEN PrefixEndsOnWord(label, sql[c])
                     ELSE OnWholeWord(label, sql[c])
            /\ sql[c] \in {Chars(e) : e \in NoLabelExamples}
                  => result[c].val = <<>>

\* C6, witness: a keyword stands in the string only as a part of a word,
\* and the result is empty
PartialWordUnlabelled ==
    \E c \in Callers :
        /\ Called(c, "detect_mutating_keywords")
        /\ PartialKeyword(sql[c])
        /\ result[c].val = <<>>

---------------------------------------------------------------------------
(* The claims about all three functions                                     *)

\* s and t differ at most in the case of ASCII letters
SameUpToAsciiCase(s, t) == AsciiLower(s) = AsciiLower(t)

\* C7: two calls of the same function, on statements that differ only in the
\* case of ASCII letters, return the same value.
CaseInsensitive ==
    \A c \in Callers : \A d \in Callers :
        /\ c \in active
        /\ d \in active
        /\ pc[c] = "done"
        /\ pc[d] = "done"
        /\ result[c].fn = result[d].fn
        /\ SameUpToAsciiCase(sql[c], sql[d])
        => result[c].val = result[d].val

\* C7, witness: the category matcher has labelled two different spellings of
\* one statement
TwoSpellingsLabelled ==
    /\ Called(1, "detect_mutating_keywords")
    /\ Called(2, "detect_mutating_keywords")
    /\ sql[1] # sql[2]
    /\ SameUpToAsciiCase(sql[1], sql[2])
    /\ Len(result[1].val) >= 2

\* what function fn returns for s when called alone
Alone(fn, s) ==
    CASE fn = "detect_mutating_keywords" ->
            DetectMutatingKeywords(s, KeywordPatterns[KeywordSource(KeywordList)])
      [] fn = "check_sql_injection_risk" -> CheckSqlInjectionRisk(s, PatternSources)
      [] fn = "detect_transaction_bypass_attempt" -> DetectTransactionBypassAttempt(s)

\* C8: whatever calls run at once, the keyword set and the pattern tables
\* stay as the import of the module left them, and every call that has
\* returned has returned what the same call returns alone; so two calls of
\* one function on one statement return the same.
CallsArePure ==
    /\ MUTATING_KEYWORDS = Range(KeywordList)
    /\ MUTATING_PATTERN = KeywordSource(KeywordList)
    /\ SUSPICIOUS_PATTERNS = PatternSources
    /\ \A c \in Callers :
          c \in active /\ pc[c] = "done"
            => result[c].val = Alone(result[c].fn, sql[c])
    /\ \A c \in Callers : \A d \in Callers :
          /\ c \in active
          /\ d \in active
          /\ pc[c] = "done"
          /\ pc[d] = "done"
          /\ result[c].fn = result[d].fn
          /\ sql[c] = sql[d]
          => result[c].val = result[d].val

\* C8, witness: a call has returned labels after another call, on the same
\* statement, had begun and before that call has returned
ReturnedWhileOtherRuns ==
    \E c \in Callers : \E d \in Callers :
        /\ Called(c, "detect_mutating_keywords")
        /\ result[c].val # <<>>
        /\ d \in active
        /\ pc[d] \in {"permission", "system", "transaction", "keywords"}
        /\ matched[Frame(d)] # <<>>
        /\ sql[c] = sql[d]

=============================================================================
